---- MODULE Spec2Model ----
(***************************************************************************)
(* Client-side orchestration of the Legal Analyzer front end.              *)
(*                                                                         *)
(* AnalyzePage (the upload -> analyze workflow) is modelled as a state     *)
(* machine over its React state.  An asynchronous handler is cut at its    *)
(* `await fetch(...)` points: the part before the await is one action, the *)
(* continuation that runs when the fetch settles is another.  A request in *)
(* flight stands for the suspended handler activation that awaits it.      *)
(***************************************************************************)
EXTENDS Integers, Sequences, FiniteSets, TLC

(***************************************************************************)
(* Bounds of the model.                                                    *)
(***************************************************************************)
\* number of workflows (accepted starts) explored
MaxRuns == 2

\* number of search requests explored
MaxSearches == 1

\* number of chat questions explored
MaxAsks == 1

\* number of search requests explored when the search component is followed
\* alone
MaxSearchSubmits == 2

\* number of times the parent of DocumentComparison changes the two documents
MaxCompares == 1

\* number of chat questions explored when a chat component is followed alone
MaxChatAsks == 2

(***************************************************************************)
(* Values.                                                                 *)
(***************************************************************************)
\* JavaScript null / undefined state value
Null == [null |-> TRUE]

\* `${undefined}` inside a template literal
Undefined == "undefined"

\* a JavaScript number, the value NaN, and undefined where a number is read
Num(n) == [num |-> n]

NaN == [nan |-> TRUE]

NoNumber == [undefined |-> TRUE]

\* a similarity of 1.00 in the unit the scores are written in: hundredths
ScoreScale == 100

\* similarity scores on both sides of every threshold, and the two ends
Scores == {0, 39, 40, 59, 60, 74, 75, 89, 90, ScoreScale}

FileNames == {"contract.pdf", "lease.docx"}

\* File objects the user can pick
Files == [name : FileNames]

\* identities the server hands out
DocIds == {"doc-001", "doc-002"}

\* analysis payloads; every sub-section is optional
Analyses ==
    { [ai_summary |-> [summary |-> "A lease of office space."]],
      [risk_analysis |-> [risk_level |-> "High"]] }

\* a JSON object with no member
EmptyObject == [f \in {} |-> TRUE]

\* a JSON object with one member
Field(name, value) == [f \in {name} |-> value]

\* the members of a and of b in one JSON object
Merge(a, b) ==
    [f \in DOMAIN a \cup DOMAIN b |-> IF f \in DOMAIN b THEN b[f] ELSE a[f]]

\* a member that may be absent: no member, or the member with one of values
Optional(name, values) == {EmptyObject} \cup {Field(name, v) : v \in values}

\* the risk levels the server assigns
RiskLevels == {"Critical", "High", "Medium", "Low"}

\* one risk point in the unit the risk scores are written in: tenths
ScoreUnit == 10

\* counts of clauses per risk level: every level counted, nothing counted,
\* one level only, and a matrix that names one level and omits the others
RiskMatrices ==
    { [Critical |-> 1, High |-> 2, Medium |-> 3, Low |-> 4],
      [Critical |-> 0, High |-> 0, Medium |-> 0, Low |-> 0],
      [Critical |-> 0, High |-> 5, Medium |-> 0, Low |-> 0],
      [High |-> 3] }

\* a list of recommendations longer than the six the page shows
Recommendations ==
    <<"Cap the liability", "Add a notice period", "Name the governing law",
      "Define the deposit", "Limit the indemnity", "Add an arbitration clause",
      "Fix the renewal terms">>

\* a list of acts longer than the four the page shows
ApplicableActs ==
    <<[name |-> "Indian Contract Act, 1872"], [name |-> "Transfer of Property Act, 1882"],
      [name |-> "Registration Act, 1908"], [name |-> "Indian Stamp Act, 1899"],
      [name |-> "Rent Control Act"]>>

\* a list of missing clauses longer than the four the page shows
MissingClauses ==
    <<[clause_type |-> "termination"], [clause_type |-> "dispute_resolution"],
      [clause_type |-> "force_majeure"], [clause_type |-> "indemnity"],
      [clause_type |-> "confidentiality"]>>

\* risk_analysis sections: every field may be absent; 72.4 and 55.0 points
RiskAnalyses ==
    { Merge(Merge(Merge(Merge(level, score), legacy), matrix), recs) :
        level \in Optional("risk_level", RiskLevels \cup {"Unknown"}),
        score \in Optional("overall_risk_score", {0, 724}),
        legacy \in Optional("overall_score", {550}),
        matrix \in Optional("risk_matrix", RiskMatrices),
        recs \in Optional("recommendations", {SubSeq(Recommendations, 1, 2), Recommendations}) }

\* indian_context sections: every field may be absent
IndianContexts ==
    { Merge(Merge(type, acts), clauses) :
        type \in Optional("document_type", {"lease_agreement", ""}),
        acts \in Optional("applicable_acts", {<<>>, ApplicableActs}),
        clauses \in Optional("missing_important_clauses", {<<>>, MissingClauses}) }

\* document_intelligence sections, with or without groups of similar clauses
DocumentIntelligences ==
    Optional("similar_clause_groups", {<<>>, <<[clauses |-> <<"c1", "c4">>]>>})

\* ai_summary sections, with or without the text
AiSummaries == Optional("summary", {"A lease of office space."})

\* analysis payloads with any of the four sections absent
ViewAnalyses ==
    {EmptyObject}
        \cup {Field("risk_analysis", r) : r \in RiskAnalyses}
        \cup {Field("indian_context", c) : c \in IndianContexts}
        \cup {Field("document_intelligence", d) : d \in DocumentIntelligences}
        \cup {Field("ai_summary", a) : a \in AiSummaries}
        \cup { [risk_analysis |-> r, indian_context |-> c, document_intelligence |-> d,
                ai_summary |-> a] :
                  r \in {[risk_level |-> "High", overall_risk_score |-> 724]},
                  c \in {[document_type |-> "lease_agreement"]},
                  d \in DocumentIntelligences, a \in AiSummaries }

\* texts typed into the search box and the chat input
Typed == {"", " ", "notice period"}

\* the example queries offered under the search box
ExampleQueries == {"payment within 30 days"}

\* answers of the chat endpoint
Answers == {"", "Thirty days."}

\* s ten times in a row
Tenfold(s) == s \o s \o s \o s \o s \o s \o s \o s \o s \o s

\* a text of n characters, n up to 10000
TextOfLength(n) == SubSeq(Tenfold(Tenfold(Tenfold("0123456789"))), 1, n)

\* err.message of a rejected fetch (a TypeError); may be empty
ErrMessages == {"", "Failed to fetch"}

\* err.message of the SyntaxError thrown by Response.json() on a non-JSON body
JsonSyntaxMessage == "Unexpected token"

\* err.message when the body stream of a response breaks while it is read
BodyReadMessage == "network error"

\* bodies of non-2xx responses: whether the body can be read at all, its raw
\* text, and its JSON value when the text parses
ErrorBodies ==
    { [readable |-> TRUE, text |-> "", json |-> Null],
      [readable |-> TRUE, text |-> "Internal Server Error", json |-> Null],
      [readable |-> TRUE, text |-> "{detail:bad}", json |-> [detail |-> "bad"]],
      [readable |-> FALSE, text |-> "", json |-> Null] }

\* a non-2xx body that looks like the body of a successful upload
LookalikeBodies ==
    { [readable |-> TRUE, text |-> "{document_id:doc-001}", json |-> [document_id |-> "doc-001"]] }

\* a non-2xx body that looks like the body of a successful chat answer
ChatLookalikeBodies ==
    { [readable |-> TRUE, text |-> "{answer:Rate limit exceeded}",
       json |-> [answer |-> "Rate limit exceeded"]] }

(***************************************************************************)
(* The server side of the HTTP contracts.                                  *)
(***************************************************************************)
\* POST /api/upload -> {document_id, filename}
ServerUploadJson(f, d) == [document_id |-> d, filename |-> IF f = Null THEN "null" ELSE f.name]

\* POST /api/analyze/{document_id} -> {document_id, analysis}
ServerAnalyzeJson(id, a) == [document_id |-> id, analysis |-> a]

\* GET /api/documents/classify/{document_id} -> {classification, top_type, ...}
ServerClassifyJson(id) == [top_type |-> "lease_agreement", method |-> "embedding"]

\* POST /api/compare/similarity/{id1}/{id2} -> {document_1, document_2,
\* similarity_score, ...}
ServerCompareJson(id1, id2, score) ==
    [document_1 |-> [id |-> id1], document_2 |-> [id |-> id2], similarity_score |-> score]

\* POST /api/search/similar-clauses -> {query, document_id, total_clauses, matches, ...}
ServerSearchJson(id, q, matches) ==
    [query |-> q, document_id |-> id, total_clauses |-> 10, matches |-> matches]

\* POST /api/chat/ask -> {answer}
ServerChatJson(a) == [answer |-> a]

\* ranked matches: similarity in hundredths, descending
MatchLists ==
    { <<>>,
      << [clause |-> "c7", similarity |-> 91], [clause |-> "c2", similarity |-> 60] >> }

\* a fetch that rejects (transport failure)
Rejections == [type : {"reject"}, message : ErrMessages]

\* a non-2xx response
ErrorResponses == [type : {"http"}, ok : {FALSE}, body : ErrorBodies]

\* a 2xx response carrying the JSON value j
OkResponse(j) ==
    [type |-> "http", ok |-> TRUE, body |-> [readable |-> TRUE, text |-> "json", json |-> j]]

\* what may come back for an upload request
UploadResponses(req) ==
    Rejections \cup ErrorResponses
        \cup [type : {"http"}, ok : {FALSE}, body : LookalikeBodies]
        \cup { OkResponse(ServerUploadJson(req.file, d)) : d \in DocIds }

\* what may come back for an analyze request
AnalyzeResponses(req) ==
    Rejections \cup ErrorResponses
        \cup { OkResponse(ServerAnalyzeJson(req.key, a)) : a \in Analyses }

\* a rejected fetch of a component that does not look at the error
ChildRejections == {[type |-> "reject", message |-> "Failed to fetch"]}

\* non-2xx responses to a component that parses the body whatever the status
\* and does not look at the error: a body that is not JSON, and one that is
ChildErrorResponses ==
    [type : {"http"}, ok : {FALSE},
     body : { [readable |-> TRUE, text |-> "Internal Server Error", json |-> Null],
              [readable |-> TRUE, text |-> "{detail:bad}", json |-> [detail |-> "bad"]] }]

\* what may come back for a classification request
ClassifyResponses(req) ==
    ChildRejections \cup ChildErrorResponses \cup {OkResponse(ServerClassifyJson(req.key))}

\* what may come back for a search request
SearchResponses(req) ==
    ChildRejections \cup ChildErrorResponses
        \cup { OkResponse(ServerSearchJson(req.key, req.clause_text, m)) : m \in MatchLists }

\* what may come back for a comparison request
CompareResponses(req) ==
    ChildRejections \cup ChildErrorResponses
        \cup { OkResponse(ServerCompareJson(req.documentId1, req.documentId2, score)) :
                 score \in Scores }

\* what may come back for a chat request
ChatResponses(req) ==
    ChildRejections \cup ChildErrorResponses
        \cup { OkResponse(ServerChatJson(a)) : a \in Answers }

\* non-2xx responses to a chat request whose body looks like an answer
ChatLookalikeResponses == [type : {"http"}, ok : {FALSE}, body : ChatLookalikeBodies]

(***************************************************************************)
(* State.                                                                  *)
(***************************************************************************)
VARIABLES
    file,        \* useState<File | null>
    uploading,   \* useState(false)
    analyzing,   \* useState(false)
    result,      \* useState<any>(null)
    error,       \* useState('')
    classification, \* DocumentClassification: its useState values
    search,      \* SemanticClauseSearch: its useState values
    chat,        \* FloatingChatbot: its useState values
    comparison,  \* DocumentComparison: its props and useState values
    inflight,    \* requests issued and not yet settled
    obs          \* observations of the run, for stating properties only

vars == <<file, uploading, analyzing, result, error, classification, search, chat,
          comparison, inflight, obs>>

\* the state of AnalyzePage
pageVars == <<file, uploading, analyzing, result, error>>

\* the state of the components
childVars == <<classification, search, chat, comparison>>

\* a property access on a parsed JSON value where a number is expected
NumGet(j, field) == IF field \in DOMAIN j THEN Num(j[field]) ELSE NoNumber

\* a >= n for a number literal n; false when a is undefined or NaN
Gte(a, n) == "num" \in DOMAIN a /\ a.num >= n

\* a property access on a parsed JSON value
JsonGet(j, field) == IF field \in DOMAIN j THEN j[field] ELSE Undefined

\* result?.document_id
documentId == IF result = Null THEN Undefined ELSE JsonGet(result, "document_id")

\* JavaScript truthiness of a string-valued property
Truthy(v) == v \notin {Undefined, ""}

\* String.prototype.trim, for the blank character used here
RECURSIVE Trim(_)
Trim(s) ==
    IF Len(s) > 0 /\ SubSeq(s, 1, 1) = " " THEN Trim(SubSeq(s, 2, Len(s)))
    ELSE IF Len(s) > 0 /\ SubSeq(s, Len(s), Len(s)) = " " THEN Trim(SubSeq(s, 1, Len(s) - 1))
    ELSE s

UploadReq(f, run) == [kind |-> "upload", file |-> f, run |-> run]

AnalyzeReq(id, run) == [kind |-> "analyze", key |-> id, run |-> run]

ClassifyReq(id) == [kind |-> "classify", key |-> id]

SearchReq(id, q, n) == [kind |-> "search", key |-> id, clause_text |-> q, n |-> n]

CompareReq(id1, id2, n) ==
    [kind |-> "compare", documentId1 |-> id1, documentId2 |-> id2, n |-> n]

ChatReq(id, q, text, summary, n) ==
    [kind |-> "chat", key |-> id, question |-> q, document_text |-> text,
     analysis_summary |-> summary, n |-> n]

\* the requests of one kind that are in flight
Pending(kind) == {req \in inflight : req.kind = kind}

\* the state of the workflow as the page shows it; the validation message of
\* a start without a file belongs to no workflow, the page stays Idle
WorkflowState ==
    IF uploading THEN "Uploading"
    ELSE IF analyzing THEN "Analyzing"
    ELSE IF result # Null THEN "Complete"
    ELSE IF error \notin {"", "Please select a file"} THEN "Failed"
    ELSE "Idle"

\* DocumentClassification as mounted
ClassificationInit == [classification |-> Null, loading |-> FALSE]

\* SemanticClauseSearch as mounted
SearchInit == [searchQuery |-> "", results |-> Null, loading |-> FALSE]

\* the greeting FloatingChatbot starts with
Greeting == [role |-> "assistant", content |-> "Hi! Ask me anything about this document."]

\* FloatingChatbot as mounted
ChatInit ==
    [component |-> "FloatingChatbot", isOpen |-> FALSE, messages |-> <<Greeting>>,
     input |-> "", loading |-> FALSE]

\* the greeting DocumentChatbot starts with
DocumentGreeting ==
    [role |-> "assistant",
     content |-> "Hi! I'm your AI legal assistant. Ask me anything about this document, its clauses, risks, or compliance requirements."]

\* DocumentChatbot as mounted; it has no isOpen state, its panel is always
\* rendered
DocumentChatInit ==
    [component |-> "DocumentChatbot", isOpen |-> TRUE, messages |-> <<DocumentGreeting>>,
     input |-> "", loading |-> FALSE]

\* DocumentComparison is rendered by no page of the application
NotRendered == [rendered |-> FALSE]

\* DocumentComparison as mounted by a parent with two document ids; the
\* effect of the first render has yet to run
ComparisonInit(id1, id2) ==
    [rendered |-> TRUE, documentId1 |-> id1, documentId2 |-> id2,
     comparison |-> Null, loading |-> FALSE, effect |-> TRUE]

Init ==
    /\ file = Null
    /\ uploading = FALSE
    /\ analyzing = FALSE
    /\ result = Null
    /\ error = ""
    /\ classification = ClassificationInit
    /\ search = SearchInit
    /\ chat = ChatInit
    /\ comparison = NotRendered
    /\ inflight = {}
    /\ obs = [runs |-> 0, uploadReqs |-> 0, analyzeReqs |-> 0,
              obtainedId |-> "", failedAt |-> "none", selectedSinceFail |-> TRUE,
              lastBody |-> Null, resultRun |-> 0, searches |-> 0, asks |-> 0,
              compares |-> 0, maxSearches |-> MaxSearches, maxAsks |-> MaxAsks]

\* how many requests of one kind a set of requests holds
Count(reqs, kind) == Cardinality({req \in reqs : req.kind = kind})

\* the observations o after the requests in issued have been sent
Observe(o, issued) ==
    [o EXCEPT !.uploadReqs = @ + Count(issued, "upload"),
              !.analyzeReqs = @ + Count(issued, "analyze")]

(***************************************************************************)
(* AnalyzePage: the results view, a function of result.                    *)
(***************************************************************************)
\* res?.analysis?.[name] is an object
HasSection(res, name) ==
    /\ "analysis" \in DOMAIN res
    /\ name \in DOMAIN res.analysis

\* const riskAnalysis = result?.analysis?.risk_analysis, where it is set
riskAnalysis == result.analysis.risk_analysis

\* const indianContext = result?.analysis?.indian_context, where it is set
indianContext == result.analysis.indian_context

\* const documentIntelligence = result?.analysis?.document_intelligence
documentIntelligence == result.analysis.document_intelligence

\* a string member of an object; undefined when absent
StringGet(j, field) == IF field \in DOMAIN j THEN j[field] ELSE Undefined

\* an array member of an object, read where [] stands in for an absent one
ListGet(j, field) == IF field \in DOMAIN j THEN j[field] ELSE <<>>

\* a ?? b
Coalesce(a, b) == IF a = NoNumber THEN b ELSE a

\* a || b on numbers
OrElse(a, b) == IF a \in {NoNumber, NaN, Num(0)} THEN b ELSE a

\* a + b
Add(a, b) ==
    IF "num" \in DOMAIN a /\ "num" \in DOMAIN b THEN Num(a.num + b.num) ELSE NaN

\* Math.max(n, a) for a number literal n
Max(n, a) == IF "num" \in DOMAIN a THEN (IF a.num >= n THEN a ELSE Num(n)) ELSE NaN

\* the decimal digits
Digits == "0123456789"

\* the decimal numeral of a natural number
RECURSIVE IntToString(_)
IntToString(n) ==
    IF n < 10 THEN SubSeq(Digits, n + 1, n + 1)
    ELSE IntToString(n \div 10) \o SubSeq(Digits, (n % 10) + 1, (n % 10) + 1)

\* Number.prototype.toFixed(1) of a number held in units of 1/unit
toFixed1(a, unit) ==
    IF "num" \in DOMAIN a
      THEN IntToString(a.num \div unit) \o "." \o IntToString(((a.num % unit) * 10) \div unit)
      ELSE "NaN"

\* `${a}` of a number held in units of 1/unit, whose fraction has at most
\* one digit
NumberToString(a, unit) ==
    IF "num" \in DOMAIN a
      THEN IntToString(a.num \div unit)
             \o (IF a.num % unit = 0 THEN ""
                 ELSE "." \o IntToString(((a.num % unit) * 10) \div unit))
    ELSE IF a = NaN THEN "NaN"
    ELSE Undefined

\* mutation: one item more than asked for is taken
sliceInclusive(list, end) == SubSeq(list, 1, IF Len(list) < end + 1 THEN Len(list) ELSE end + 1)

\* Array.prototype.slice(0, end): a new array, the receiver is not changed
slice(list, end) == SubSeq(list, 1, IF Len(list) < end THEN Len(list) ELSE end)

\* the levels RiskBadge has a configuration for
BadgeLevels == {"Critical", "High", "Medium", "Low"}

\* RiskBadge: const config = configs[level]; const Icon = config.icon throws
\* a TypeError when configs has no such level
RiskBadgeThrows(level) == level \notin BadgeLevels

\* rendering res throws: RiskHeatmap is rendered for every risk_analysis and
\* renders RiskBadge with data.risk_level
ViewThrows(res) ==
    /\ res # Null
    /\ HasSection(res, "risk_analysis")
    /\ RiskBadgeThrows(StringGet(res.analysis.risk_analysis, "risk_level"))

\* the render of the results section throws; no error boundary catches it,
\* so that the page is taken down
RenderThrows == ViewThrows(result)

\* the results section is on screen
ResultsSectionShown == result # Null /\ ~RenderThrows

\* mutation: the gradient of High is the one of Critical
getRiskColorHighAsCritical(level) ==
    CASE level = "Critical" -> "from-red-500 to-red-600"
      [] level = "High" -> "from-red-500 to-red-600"
      [] level = "Medium" -> "from-yellow-500 to-yellow-600"
      [] level = "Low" -> "from-green-500 to-green-600"
      [] OTHER -> "from-gray-500 to-gray-600"

\* the gradient of the risk hero card
getRiskColor(level) ==
    CASE level = "Critical" -> "from-red-500 to-red-600"
      [] level = "High" -> "from-orange-500 to-orange-600"
      [] level = "Medium" -> "from-yellow-500 to-yellow-600"
      [] level = "Low" -> "from-green-500 to-green-600"
      [] OTHER -> "from-gray-500 to-gray-600"

\* {riskAnalysis && (<div ...>)}: the hero card and RiskHeatmap are built
RiskShown == result # Null /\ HasSection(result, "risk_analysis")

\* the gradient of the hero card
HeroColor == getRiskColor(StringGet(riskAnalysis, "risk_level"))

\* (riskAnalysis.overall_risk_score || 0).toFixed(1) + "/100"
HeroScoreLabel ==
    toFixed1(OrElse(NumGet(riskAnalysis, "overall_risk_score"), Num(0)), ScoreUnit) \o "/100"

\* result.analysis?.ai_summary?.summary || 'No summary available'
SummaryText ==
    IF HasSection(result, "ai_summary")
         /\ Truthy(StringGet(result.analysis.ai_summary, "summary"))
      THEN result.analysis.ai_summary.summary
      ELSE "No summary available"

\* RiskHeatmap: const riskScore = data.overall_risk_score ?? data.overall_score ?? 0
riskScore ==
    Coalesce(NumGet(riskAnalysis, "overall_risk_score"),
             Coalesce(NumGet(riskAnalysis, "overall_score"), Num(0)))

\* RiskHeatmap: const matrix = data.risk_matrix || {Critical: 0, ...}
matrix ==
    IF "risk_matrix" \in DOMAIN riskAnalysis THEN riskAnalysis.risk_matrix
    ELSE [Critical |-> 0, High |-> 0, Medium |-> 0, Low |-> 0]

\* RiskHeatmap: const total = matrix.Critical + matrix.High + matrix.Medium + matrix.Low
total ==
    Add(Add(Add(NumGet(matrix, "Critical"), NumGet(matrix, "High")),
            NumGet(matrix, "Medium")), NumGet(matrix, "Low"))

\* RiskHeatmap: getPercentage, in whole percent; the counts explored have
\* whole quotients
getPercentage(count) ==
    IF total = Num(0) THEN Num(0)
    ELSE IF "num" \in DOMAIN count /\ "num" \in DOMAIN total
      THEN Num((count.num * 100) \div total.num)
    ELSE NaN

\* the label of the gauge: {riskScore.toFixed(1)}/100
GaugeLabel == toFixed1(riskScore, ScoreUnit) \o "/100"

\* the thresholds of the gauge colours, in risk points
GaugeRed == 70

GaugeOrange == 50

GaugeYellow == 30

\* the colour of the gauge, chosen from data.overall_score
GaugeColor ==
    LET overall_score == NumGet(riskAnalysis, "overall_score")
    IN  IF Gte(overall_score, GaugeRed * ScoreUnit) THEN "from-red-500 to-red-600"
        ELSE IF Gte(overall_score, GaugeOrange * ScoreUnit) THEN "from-orange-500 to-orange-600"
        ELSE IF Gte(overall_score, GaugeYellow * ScoreUnit) THEN "from-yellow-500 to-yellow-600"
        ELSE "from-green-500 to-green-600"

\* the width of the gauge: `${data.overall_score}%`
GaugeWidth == NumberToString(NumGet(riskAnalysis, "overall_score"), ScoreUnit) \o "%"

\* {matrix.X > 0 && (...)}: the levels that get a bar
BarLevels == {level \in BadgeLevels : Gte(NumGet(matrix, level), 1)}

\* the least width of a bar, in percent
MinBarWidth == 15

\* the width of the bar of a level: `${Math.max(15, getPercentage(matrix.X))}%`
BarWidth(level) ==
    NumberToString(Max(MinBarWidth, getPercentage(NumGet(matrix, level))), 1) \o "%"

\* the numbers of items the page shows of each list
MaxRecommendations == 6

MaxActs == 4

MaxMissingClauses == 4

\* the recommendations listed
ShownRecommendations ==
    IF RiskShown /\ "recommendations" \in DOMAIN riskAnalysis
      THEN slice(riskAnalysis.recommendations, MaxRecommendations)
      ELSE <<>>

\* {indianContext && (...)}: the Indian law card is built
ContextShown == result # Null /\ HasSection(result, "indian_context")

\* the acts listed: indianContext.applicable_acts?.length > 0 && ...
ShownActs ==
    IF ContextShown THEN slice(ListGet(indianContext, "applicable_acts"), MaxActs) ELSE <<>>

\* the missing clauses listed
ShownMissingClauses ==
    IF ContextShown
      THEN slice(ListGet(indianContext, "missing_important_clauses"), MaxMissingClauses)
      ELSE <<>>

\* String.prototype.replace(from, to) for one-character strings: the first
\* occurrence only
RECURSIVE replace(_, _, _)
replace(str, from, to) ==
    IF str = "" THEN ""
    ELSE IF SubSeq(str, 1, 1) = from THEN to \o SubSeq(str, 2, Len(str))
    ELSE SubSeq(str, 1, 1) \o replace(SubSeq(str, 2, Len(str)), from, to)

\* the letters, lower case and upper case
LowerCase == "abcdefghijklmnopqrstuvwxyz"

UpperCase == "ABCDEFGHIJKLMNOPQRSTUVWXYZ"

\* String.prototype.toUpperCase of one character
toUpperCase(c) ==
    IF \E i \in 1..Len(LowerCase) : SubSeq(LowerCase, i, i) = c
      THEN LET i == CHOOSE k \in 1..Len(LowerCase) : SubSeq(LowerCase, k, k) = c
           IN  SubSeq(UpperCase, i, i)
      ELSE c

\* \w: a letter, a digit or the underscore
IsWordChar(c) ==
    \/ c = "_"
    \/ \E i \in 1..Len(LowerCase) : c \in {SubSeq(LowerCase, i, i), SubSeq(UpperCase, i, i)}
    \/ \E i \in 1..Len(Digits) : c = SubSeq(Digits, i, i)

\* str.replace(/\b\w/g, l => l.toUpperCase()): the first character of every
\* word in upper case; prev is the character before str
RECURSIVE CapitalizeWords(_, _)
CapitalizeWords(str, prev) ==
    IF str = "" THEN ""
    ELSE LET c == SubSeq(str, 1, 1)
         IN  (IF IsWordChar(c) /\ ~IsWordChar(prev) THEN toUpperCase(c) ELSE c)
                 \o CapitalizeWords(SubSeq(str, 2, Len(str)), c)

\* indianContext.document_type?.replace('_', ' ').replace(/\b\w/g, ...) ||
\* 'General Contract'
DocumentTypeLabel ==
    LET type == StringGet(indianContext, "document_type")
        label == IF type = Undefined THEN Undefined
                 ELSE CapitalizeWords(replace(type, "_", " "), " ")
    IN  IF Truthy(label) THEN label ELSE "General Contract"

\* groups={documentIntelligence?.similar_clause_groups || []}
SimilarGroups ==
    IF result # Null /\ HasSection(result, "document_intelligence")
      THEN ListGet(documentIntelligence, "similar_clause_groups")
      ELSE <<>>

(***************************************************************************)
(* AnalyzePage: user events.                                               *)
(***************************************************************************)
\* mutation: the controls are disabled only while the upload is pending
ControlsDisabledWhileUploading == uploading

\* disabled={uploading || analyzing} on the file input and the button
ControlsDisabled == uploading \/ analyzing

\* the upload section is the one rendered
UploadSectionShown == result = Null

\* onChange of the file input; f = Null is a dialog closed without a file
handleFileChange(f) ==
    /\ UploadSectionShown
    /\ ~ControlsDisabled
    /\ IF f # Null
         THEN /\ file' = f
              /\ error' = ""
              /\ obs' = [obs EXCEPT !.selectedSinceFail = TRUE, !.failedAt = "none"]
         ELSE UNCHANGED <<file, error, obs>>
    /\ UNCHANGED <<uploading, analyzing, result, inflight, childVars>>

\* mutation: the guard on the selected file is missing
NoFileSelectedNever(f) == FALSE

\* if (!file)
NoFileSelected(f) == f = Null

\* the fetch issued before the first await
StartRequests(f, run) == {UploadReq(f, run)}

\* the part of handleUploadAndAnalyze up to the first await; the button that
\* calls it is rendered only while a file is selected, the handler checks again
handleUploadAndAnalyze ==
    /\ UploadSectionShown
    /\ ~ControlsDisabled
    /\ IF NoFileSelected(file)
         THEN /\ error' = "Please select a file"
              /\ UNCHANGED <<uploading, analyzing, inflight, obs>>
         ELSE /\ obs.runs < MaxRuns
              /\ uploading' = TRUE
              /\ analyzing' = TRUE
              /\ error' = ""
              /\ inflight' = inflight \cup StartRequests(file, obs.runs + 1)
              /\ obs' = Observe([obs EXCEPT !.runs = @ + 1, !.uploadReqs = 0,
                                            !.analyzeReqs = 0, !.obtainedId = "",
                                            !.failedAt = "none", !.lastBody = Null],
                                StartRequests(file, obs.runs + 1))
    /\ UNCHANGED <<file, result, childVars>>

\* the requests whose continuation belongs to the results section
ChildRequests == Pending("classify") \cup Pending("search") \cup Pending("chat")

\* mutation: the selected file survives the restart
analyzeAnotherKeepsFile ==
    /\ ResultsSectionShown
    /\ result' = Null
    /\ classification' = ClassificationInit
    /\ search' = SearchInit
    /\ chat' = ChatInit
    /\ inflight' = inflight \ ChildRequests
    /\ UNCHANGED <<file, uploading, analyzing, error, obs, comparison>>

\* onClick of "Analyze Another Document" (rendered in the results section,
\* when its render does not throw).
\* The results section unmounts: its components lose their state, and the
\* continuations of their pending fetches set state on nothing.
analyzeAnother ==
    /\ ResultsSectionShown
    /\ result' = Null
    /\ file' = Null
    /\ classification' = ClassificationInit
    /\ search' = SearchInit
    /\ chat' = ChatInit
    /\ inflight' = inflight \ ChildRequests
    /\ UNCHANGED <<uploading, analyzing, error, obs, comparison>>

(***************************************************************************)
(* AnalyzePage: continuations of handleUploadAndAnalyze.                   *)
(***************************************************************************)
\* mutation: the message is used without the fallback text
CatchMessageNoFallback(m) == m

\* err.message || 'Something went wrong'
CatchMessage(m) == IF m # "" THEN m ELSE "Something went wrong"

\* mutation: the catch block issues the failed request again
CatchRequestsRetry(req) == {req}

\* the requests the catch block issues: it only sets state
CatchRequests(req) == {}

\* the catch block, entered with an error whose message is m while req was
\* awaited; body is the body of the non-2xx analyze response, if that is the cause
Catch(req, m, body) ==
    /\ error' = CatchMessage(m)
    /\ uploading' = FALSE
    /\ analyzing' = FALSE
    /\ inflight' = (inflight \ {req}) \cup CatchRequests(req)
    /\ obs' = Observe([obs EXCEPT !.failedAt = req.kind,
                                  !.selectedSinceFail = IF req.kind = "upload" THEN FALSE ELSE @,
                                  !.lastBody = body],
                      CatchRequests(req))
    /\ UNCHANGED <<file, result, childVars>>

\* mutation: the status of the upload response is not checked
UploadOkAlways(resp) == TRUE

\* uploadRes.ok
UploadOk(resp) == resp.ok

\* mutation: the analyze URL is built from the wrong field of uploadData
AnalyzeKeyFilename(uploadData) == JsonGet(uploadData, "filename")

\* the id interpolated into the analyze URL: uploadData.document_id
AnalyzeKey(uploadData) == JsonGet(uploadData, "document_id")

\* the fetch issued once uploadData is known
AnalyzeRequests(uploadData, run) == {AnalyzeReq(AnalyzeKey(uploadData), run)}

\* await response.json(): the parsed value, or Null when json() rejects
ParsedJson(resp) == IF resp.body.readable THEN resp.body.json ELSE Null

\* the message of the error json() rejects with
JsonErrorMessage(resp) == IF resp.body.readable THEN JsonSyntaxMessage ELSE BodyReadMessage

\* handleUploadAndAnalyze resumed when the upload fetch settles
uploadSettled(req, resp) ==
    /\ req \in inflight
    /\ req.kind = "upload"
    /\ IF resp.type = "reject"
         THEN Catch(req, resp.message, Null)
       ELSE IF ~UploadOk(resp)
         THEN Catch(req, "Upload failed", Null)
       ELSE IF ParsedJson(resp) = Null
         THEN Catch(req, JsonErrorMessage(resp), Null)
         ELSE /\ uploading' = FALSE
              /\ inflight' = (inflight \ {req}) \cup AnalyzeRequests(ParsedJson(resp), req.run)
              /\ obs' = Observe([obs EXCEPT !.obtainedId =
                                     IF resp.ok THEN JsonGet(ParsedJson(resp), "document_id")
                                                ELSE ""],
                                AnalyzeRequests(ParsedJson(resp), req.run))
              /\ UNCHANGED <<file, analyzing, result, error, childVars>>

\* mutation: the server's text is left out of the message
AnalyzeErrorMessageNoDetail(errorText) == "Analysis failed"

\* `Analysis failed: ${errorText}`
AnalyzeErrorMessage(errorText) == "Analysis failed: " \o errorText

\* DocumentClassification is rendered with documentId = res.document_id when
\* that is truthy; its effect then runs fetchClassification up to the await.
\* No effect runs when the render of res throws.
MountRequests(res) ==
    IF ~ViewThrows(res) /\ Truthy(JsonGet(res, "document_id"))
      THEN {ClassifyReq(JsonGet(res, "document_id"))}
      ELSE {}

\* handleUploadAndAnalyze resumed when the analyze fetch settles
analyzeSettled(req, resp) ==
    /\ req \in inflight
    /\ req.kind = "analyze"
    /\ IF resp.type = "reject"
         THEN Catch(req, resp.message, Null)
       ELSE IF ~resp.ok
         THEN IF resp.body.readable
                THEN Catch(req, AnalyzeErrorMessage(resp.body.text), resp.body)
                ELSE Catch(req, BodyReadMessage, resp.body)
       ELSE IF ParsedJson(resp) = Null
         THEN Catch(req, JsonErrorMessage(resp), Null)
         ELSE /\ result' = ParsedJson(resp)
              /\ analyzing' = FALSE
              /\ classification' = [ClassificationInit EXCEPT
                                       !.loading = MountRequests(ParsedJson(resp)) # {}]
              /\ inflight' = (inflight \ {req}) \cup MountRequests(ParsedJson(resp))
              /\ obs' = [obs EXCEPT !.resultRun = req.run]
              /\ UNCHANGED <<file, uploading, error, search, chat, comparison>>

(***************************************************************************)
(* DocumentClassification.                                                 *)
(***************************************************************************)
\* fetchClassification resumed when its fetch settles; the body is parsed
\* whatever the status
classifySettled(req, resp) ==
    /\ req \in inflight
    /\ req.kind = "classify"
    /\ IF resp.type = "reject" \/ ParsedJson(resp) = Null
         THEN classification' = [classification EXCEPT !.loading = FALSE]
         ELSE classification' = [classification |-> ParsedJson(resp), loading |-> FALSE]
    /\ inflight' = inflight \ {req}
    /\ UNCHANGED <<pageVars, search, chat, obs, comparison>>

(***************************************************************************)
(* SemanticClauseSearch.                                                   *)
(***************************************************************************)
\* {documentId && <SemanticClauseSearch documentId={documentId} />}
SearchShown == ResultsSectionShown /\ Truthy(documentId)

\* onChange of the search box
setSearchQuery(text) ==
    /\ SearchShown
    /\ search' = [search EXCEPT !.searchQuery = text]
    /\ UNCHANGED <<pageVars, classification, chat, inflight, obs, comparison>>

\* mutation: the query is compared with '' without being trimmed
SearchRequestsUntrimmed(q) ==
    IF q = "" THEN {} ELSE {SearchReq(documentId, q, obs.searches + 1)}

\* the fetch handleSearch issues when it runs with query q: none when
\* !q.trim(), else one keyed by the documentId prop
SearchRequests(q) ==
    IF Trim(q) = "" THEN {} ELSE {SearchReq(documentId, q, obs.searches + 1)}

\* handleSearch up to the await, run with the searchQuery of the render it
\* was created in
handleSearch(q) ==
    /\ SearchRequests(q) # {} => obs.searches < obs.maxSearches
    /\ inflight' = inflight \cup SearchRequests(q)
    /\ obs' = [obs EXCEPT !.searches = @ + Cardinality(SearchRequests(q))]
    /\ UNCHANGED <<pageVars, classification, chat, comparison>>

\* onSubmit of the search form; the submit button is disabled while loading
submitSearch ==
    /\ SearchShown
    /\ ~search.loading
    /\ handleSearch(search.searchQuery)
    /\ search' = [search EXCEPT !.loading = SearchRequests(search.searchQuery) # {}]

\* onClick of an example query, shown while there are no results: it sets
\* the query and calls handleSearch of the current render
exampleClick(example) ==
    /\ SearchShown
    /\ search.results = Null
    /\ ~search.loading
    /\ handleSearch(search.searchQuery)
    /\ search' = [search EXCEPT !.searchQuery = example,
                                !.loading = SearchRequests(search.searchQuery) # {}]

\* onSubmit of the search form for a submit event that does not come from the
\* submit button (form.requestSubmit(), a dispatched event like the one the
\* example buttons build): the disabled button does not keep it away while a
\* search is loading, and handleSearch does not look at loading
dispatchSubmit ==
    /\ SearchShown
    /\ search.loading
    /\ handleSearch(search.searchQuery)
    /\ search' = [search EXCEPT !.loading = @ \/ SearchRequests(search.searchQuery) # {}]

\* mutation: a search that fails reports on the page's error banner
searchSettledReportsOnPage(req, resp) ==
    /\ req \in inflight
    /\ req.kind = "search"
    /\ IF resp.type = "reject" \/ ParsedJson(resp) = Null
         THEN /\ search' = [search EXCEPT !.loading = FALSE]
              /\ error' = "Search failed"
         ELSE /\ search' = [search EXCEPT !.results = ParsedJson(resp), !.loading = FALSE]
              /\ error' = error
    /\ inflight' = inflight \ {req}
    /\ UNCHANGED <<file, uploading, analyzing, result, classification, chat, obs, comparison>>

\* handleSearch resumed when its fetch settles; the body is parsed whatever
\* the status
searchSettled(req, resp) ==
    /\ req \in inflight
    /\ req.kind = "search"
    /\ IF resp.type = "reject" \/ ParsedJson(resp) = Null
         THEN search' = [search EXCEPT !.loading = FALSE]
         ELSE search' = [search EXCEPT !.results = ParsedJson(resp), !.loading = FALSE]
    /\ inflight' = inflight \ {req}
    /\ UNCHANGED <<pageVars, classification, chat, obs, comparison>>

\* mutation: the matches are rendered last to first
DisplayedMatchesReversed ==
    IF search.results = Null \/ search.loading \/ "matches" \notin DOMAIN search.results
      THEN <<>>
      ELSE [i \in 1..Len(search.results.matches) |->
              search.results.matches[Len(search.results.matches) + 1 - i]]

\* {results && !loading && ... results.matches?.map((match, idx) => ...)}:
\* the matches rendered, top to bottom
DisplayedMatches ==
    IF search.results = Null \/ search.loading \/ "matches" \notin DOMAIN search.results
      THEN <<>>
      ELSE [i \in 1..Len(search.results.matches) |-> search.results.matches[i]]

(***************************************************************************)
(* FloatingChatbot.                                                        *)
(***************************************************************************)
\* {result && <FloatingChatbot ... />}
ChatShown == ResultsSectionShown

\* documentId={result.document_id || documentId || 'unknown'}
ChatDocumentId ==
    IF Truthy(JsonGet(result, "document_id")) THEN JsonGet(result, "document_id")
    ELSE IF Truthy(documentId) THEN documentId
    ELSE "unknown"

\* documentText={result.processed?.text || ''}
ChatDocumentText ==
    IF "processed" \in DOMAIN result /\ "text" \in DOMAIN result.processed
      THEN result.processed.text
      ELSE ""

\* analysis?.ai_summary?.summary || '', with analysis={result.analysis || {}}
ChatAnalysisSummary ==
    IF "analysis" \in DOMAIN result /\ "ai_summary" \in DOMAIN result.analysis
      THEN result.analysis.ai_summary.summary
      ELSE ""

\* the length of the document text sent along with a question
ChatTextLimit == 3000

\* onClick of the floating button of FloatingChatbot
toggleChat ==
    /\ ChatShown
    /\ chat.component = "FloatingChatbot"
    /\ chat' = [chat EXCEPT !.isOpen = ~@]
    /\ UNCHANGED <<pageVars, classification, search, inflight, obs, comparison>>

\* onChange of the chat input, which is disabled while loading
setInput(text) ==
    /\ ChatShown
    /\ chat.isOpen
    /\ ~chat.loading
    /\ chat' = [chat EXCEPT !.input = text]
    /\ UNCHANGED <<pageVars, classification, search, inflight, obs, comparison>>

\* the suggested questions of a chat component
SuggestedQuestions(component) ==
    IF component = "FloatingChatbot" THEN {"What are the main risks?"}
    ELSE {"What are the main risks in this document?"}

\* onClick of a suggested question, offered while the greeting is the only
\* message
suggestionClick(q) ==
    /\ ChatShown
    /\ chat.isOpen
    /\ Len(chat.messages) = 1
    /\ chat' = [chat EXCEPT !.input = q]
    /\ UNCHANGED <<pageVars, classification, search, inflight, obs, comparison>>

\* mutation: a blank question is sent
SendRejectedWhileLoading == chat.loading

\* if (!input.trim() || loading) return
SendRejected == Trim(chat.input) = "" \/ chat.loading

\* mutation: the user message replaces the history
OnlyUserMessage(messages, userMessage) == <<userMessage>>

\* [...messages, userMessage]
WithUserMessage(messages, userMessage) == Append(messages, userMessage)

\* mutation: the prefix is one character too long
SubstringInclusive(text, limit) ==
    SubSeq(text, 1, IF Len(text) < limit + 1 THEN Len(text) ELSE limit + 1)

\* documentText.substring(0, 3000)
Substring(text, limit) == SubSeq(text, 1, IF Len(text) < limit THEN Len(text) ELSE limit)

\* handleSend up to the await, called by the send button or the Enter key
handleSend ==
    /\ ChatShown
    /\ chat.isOpen
    /\ IF SendRejected
         THEN UNCHANGED <<chat, inflight, obs>>
         ELSE /\ obs.asks < obs.maxAsks
              /\ chat' = [chat EXCEPT
                            !.messages = WithUserMessage(@, [role |-> "user",
                                                             content |-> chat.input]),
                            !.input = "",
                            !.loading = TRUE]
              /\ inflight' = inflight \cup
                    {ChatReq(ChatDocumentId, chat.input,
                             Substring(ChatDocumentText, ChatTextLimit),
                             ChatAnalysisSummary, obs.asks + 1)}
              /\ obs' = [obs EXCEPT !.asks = @ + 1]
    /\ UNCHANGED <<pageVars, classification, search, comparison>>

\* the content of the assistant message for a parsed response body
AnswerContent(data) ==
    IF Truthy(JsonGet(data, "answer")) THEN JsonGet(data, "answer")
    ELSE "Sorry, I couldn't process that question."

\* the content of the message the catch block of a chat component appends
ChatErrorContent(component) ==
    IF component = "FloatingChatbot" THEN "Sorry, there was an error. Please try again."
    ELSE "Sorry, there was an error processing your question. Please try again."

\* mutation: the catch block appends nothing
CatchMessagesNone(prev, errorMessage) == prev

\* setMessages(prev => [...prev, errorMessage])
CatchMessages(prev, errorMessage) == Append(prev, errorMessage)

\* handleSend resumed when its fetch settles; the body is parsed whatever
\* the status
chatSettled(req, resp) ==
    /\ req \in inflight
    /\ req.kind = "chat"
    /\ IF resp.type = "reject" \/ ParsedJson(resp) = Null
         THEN chat' = [chat EXCEPT
                         !.messages = CatchMessages(@, [role |-> "assistant",
                                 content |-> ChatErrorContent(chat.component)]),
                         !.loading = FALSE]
         ELSE chat' = [chat EXCEPT
                         !.messages = Append(@, [role |-> "assistant",
                                                 content |-> AnswerContent(ParsedJson(resp))]),
                         !.loading = FALSE]
    /\ inflight' = inflight \ {req}
    /\ UNCHANGED <<pageVars, classification, search, obs, comparison>>

(***************************************************************************)
(* DocumentComparison.                                                     *)
(***************************************************************************)
\* the document ids a parent may pass: a document, or none chosen yet
CompareIds == DocIds \cup {""}

\* the parent renders the component again with other documents; the effect
\* that depends on the two ids is scheduled
setDocuments(id1, id2) ==
    /\ comparison.rendered
    /\ ~comparison.effect
    /\ <<id1, id2>> # <<comparison.documentId1, comparison.documentId2>>
    /\ obs.compares < MaxCompares
    /\ comparison' = [comparison EXCEPT !.documentId1 = id1, !.documentId2 = id2,
                                         !.effect = TRUE]
    /\ obs' = [obs EXCEPT !.compares = @ + 1]
    /\ UNCHANGED <<pageVars, classification, search, chat, inflight>>

\* the fetch compareDocuments issues
CompareRequests ==
    {CompareReq(comparison.documentId1, comparison.documentId2, obs.compares)}

\* the effect of a render with new ids: compareDocuments up to the await when
\* both ids are set
useEffectCompare ==
    /\ comparison.rendered
    /\ comparison.effect
    /\ IF Truthy(comparison.documentId1) /\ Truthy(comparison.documentId2)
         THEN /\ comparison' = [comparison EXCEPT !.effect = FALSE, !.loading = TRUE]
              /\ inflight' = inflight \cup CompareRequests
         ELSE /\ comparison' = [comparison EXCEPT !.effect = FALSE]
              /\ inflight' = inflight
    /\ UNCHANGED <<pageVars, classification, search, chat, obs>>

\* compareDocuments resumed when its fetch settles; the body is parsed
\* whatever the status
compareSettled(req, resp) ==
    /\ req \in inflight
    /\ req.kind = "compare"
    /\ IF resp.type = "reject" \/ ParsedJson(resp) = Null
         THEN comparison' = [comparison EXCEPT !.loading = FALSE]
         ELSE comparison' = [comparison EXCEPT !.comparison = ParsedJson(resp),
                                                !.loading = FALSE]
    /\ inflight' = inflight \ {req}
    /\ UNCHANGED <<pageVars, classification, search, chat, obs>>

\* the thresholds of getColorForScore, in hundredths
ExcellentScore == 90

GoodScore == 75

FairScore == 60

WeakScore == 40

\* mutation: a score on a threshold belongs to the band below it
getColorForScoreExclusive(score) ==
    IF Gte(score, ExcellentScore + 1) THEN "from-green-500 to-emerald-600"
    ELSE IF Gte(score, GoodScore + 1) THEN "from-blue-500 to-cyan-600"
    ELSE IF Gte(score, FairScore + 1) THEN "from-yellow-500 to-orange-500"
    ELSE IF Gte(score, WeakScore + 1) THEN "from-orange-500 to-red-500"
    ELSE "from-red-500 to-pink-600"

\* the gradient of the score card
getColorForScore(score) ==
    IF Gte(score, ExcellentScore) THEN "from-green-500 to-emerald-600"
    ELSE IF Gte(score, GoodScore) THEN "from-blue-500 to-cyan-600"
    ELSE IF Gte(score, FairScore) THEN "from-yellow-500 to-orange-500"
    ELSE IF Gte(score, WeakScore) THEN "from-orange-500 to-red-500"
    ELSE "from-red-500 to-pink-600"

\* the icon of the score card
getIconForScore(score) ==
    IF Gte(score, ExcellentScore) THEN "target"
    ELSE IF Gte(score, GoodScore) THEN "check"
    ELSE IF Gte(score, FairScore) THEN "warning"
    ELSE "cross"

\* the colours of a match in SemanticClauseSearch, whose similarity is a
\* number of the same scale
getSimilarityColor(sim) ==
    IF Gte(sim, ExcellentScore) THEN "bg-green-100 border-green-400 text-green-800"
    ELSE IF Gte(sim, GoodScore) THEN "bg-blue-100 border-blue-400 text-blue-800"
    ELSE IF Gte(sim, FairScore) THEN "bg-yellow-100 border-yellow-400 text-yellow-800"
    ELSE "bg-gray-100 border-gray-400 text-gray-800"

\* the render reads comparison.document_1.filename and
\* comparison.document_2.filename: a body held without these objects makes
\* the render throw a TypeError
ComparisonThrows ==
    /\ comparison.rendered /\ ~comparison.loading /\ comparison.comparison # Null
    /\ {"document_1", "document_2"} \ DOMAIN comparison.comparison # {}

\* the score card is rendered: not loading, and a comparison is held
ComparisonShown ==
    /\ comparison.rendered /\ ~comparison.loading /\ comparison.comparison # Null
    /\ ~ComparisonThrows

\* comparison.similarity_score as the score card reads it
ComparisonScore == NumGet(comparison.comparison, "similarity_score")

(***************************************************************************)
(* The system.                                                             *)
(***************************************************************************)
\* the user closes the file dialog, with or without a file
FileChanges == \E f \in Files \cup {Null} : handleFileChange(f)

\* the upload fetch of a suspended handler settles
UploadSettles ==
    \E req \in Pending("upload") : \E resp \in UploadResponses(req) : uploadSettled(req, resp)

\* the analyze fetch of a suspended handler settles
AnalyzeSettles ==
    \E req \in Pending("analyze") : \E resp \in AnalyzeResponses(req) : analyzeSettled(req, resp)

\* the classification fetch settles
ClassifySettles ==
    \E req \in Pending("classify") : \E resp \in ClassifyResponses(req) : classifySettled(req, resp)

\* the user edits the search box
SearchQueryChanges == \E text \in Typed : setSearchQuery(text)

\* the user clicks an example query
ExampleClicks == \E example \in ExampleQueries : exampleClick(example)

\* a search fetch settles
SearchSettles ==
    \E req \in Pending("search") : \E resp \in SearchResponses(req) : searchSettled(req, resp)

\* the user edits the chat input
InputChanges == \E text \in Typed : setInput(text)

\* the user clicks a suggested question
SuggestionClicks == \E q \in SuggestedQuestions(chat.component) : suggestionClick(q)

\* a chat fetch settles
ChatSettles ==
    \E req \in Pending("chat") : \E resp \in ChatResponses(req) : chatSettled(req, resp)

\* fetch is called with no signal and no timer: on a connection that never
\* answers, the promise the handler awaits stays pending for good
fetchHangs(req) ==
    /\ req \in inflight
    /\ inflight' = (inflight \ {req}) \cup {[req EXCEPT !.kind = "unanswered"]}
    /\ UNCHANGED <<pageVars, childVars, obs>>

\* the connection of a workflow request goes silent
FetchHangs == \E req \in Pending("upload") \cup Pending("analyze") : fetchHangs(req)

\* a chat fetch settles with a non-2xx response that looks like an answer
ChatLookalikeSettles ==
    \E req \in Pending("chat") : \E resp \in ChatLookalikeResponses : chatSettled(req, resp)

\* the page with nobody touching the search box or the chat
NextWorkflow ==
    \/ FileChanges
    \/ handleUploadAndAnalyze
    \/ analyzeAnother
    \/ UploadSettles
    \/ AnalyzeSettles
    \/ ClassifySettles

SpecWorkflow == Init /\ [][NextWorkflow]_vars

\* the page on a network that may leave a request without an answer
NextNetwork == NextWorkflow \/ FetchHangs

\* a fetch that settles resumes the handler that awaits it
SpecNetwork ==
    /\ Init
    /\ [][NextNetwork]_vars
    /\ WF_vars(UploadSettles)
    /\ WF_vars(AnalyzeSettles)
    /\ WF_vars(ClassifySettles)

Next ==
    \/ FileChanges
    \/ handleUploadAndAnalyze
    \/ analyzeAnother
    \/ UploadSettles
    \/ AnalyzeSettles
    \/ ClassifySettles
    \/ SearchQueryChanges
    \/ submitSearch
    \/ ExampleClicks
    \/ SearchSettles
    \/ toggleChat
    \/ InputChanges
    \/ handleSend
    \/ ChatSettles

Spec == Init /\ [][Next]_vars

(***************************************************************************)
(* A chat component followed alone: FloatingChatbot as AnalyzePage renders *)
(* it for a result, or DocumentChatbot given the same props.               *)
(***************************************************************************)
\* document texts around the length limit of a chat request
DocumentTexts ==
    { "Lease.", TextOfLength(ChatTextLimit), TextOfLength(ChatTextLimit + 1),
      TextOfLength(ChatTextLimit + 500) }

\* analyze responses the page holds as result: with the processed text the
\* page passes on as documentText, or without it
ChatResults ==
    { ServerAnalyzeJson("doc-001", a) : a \in Analyses }
        \cup { [document_id |-> "doc-001", analysis |-> a, processed |-> [text |-> t]] :
                 a \in Analyses, t \in DocumentTexts }

\* the observations of a run that has completed one workflow with result res
\* and explores up to searches search requests and asks chat questions
CompletedObs(res, searches, asks) ==
    [runs |-> 1, uploadReqs |-> 1, analyzeReqs |-> 1,
     obtainedId |-> JsonGet(res, "document_id"), failedAt |-> "none",
     selectedSinceFail |-> TRUE, lastBody |-> Null, resultRun |-> 1,
     searches |-> 0, asks |-> 0, compares |-> 0, maxSearches |-> searches,
     maxAsks |-> asks]

\* the page is Complete with the chat component just mounted
InitChat ==
    /\ file = [name |-> "contract.pdf"]
    /\ uploading = FALSE
    /\ analyzing = FALSE
    /\ result \in ChatResults
    /\ error = ""
    /\ classification = [classification |-> ServerClassifyJson(documentId), loading |-> FALSE]
    /\ search = SearchInit
    /\ chat \in {ChatInit, DocumentChatInit}
    /\ comparison = NotRendered
    /\ inflight = {}
    /\ obs = CompletedObs(result, 0, MaxChatAsks)

NextChat ==
    \/ toggleChat
    \/ InputChanges
    \/ SuggestionClicks
    \/ handleSend
    \/ ChatSettles
    \/ ChatLookalikeSettles

SpecChat == InitChat /\ [][NextChat]_vars

(***************************************************************************)
(* Properties of the upload -> analyze workflow.                           *)
(***************************************************************************)
\* the requests of the workflow itself that are in flight
WorkflowRequests == Pending("upload") \cup Pending("analyze")

\* s ends with t
EndsWith(s, t) == Len(t) <= Len(s) /\ SubSeq(s, Len(s) - Len(t) + 1, Len(s)) = t

\* C1: an analyze request is in flight only after the upload request of the
\* same run has returned a 2xx response; it is keyed by the document_id of
\* that response, and no upload request of the run is in flight with it.
C1_AnalyzeAfterUpload ==
    \A req \in Pending("analyze") :
        /\ obs.obtainedId # ""
        /\ req.key = obs.obtainedId
        /\ req.run = obs.runs
        /\ \A up \in Pending("upload") : up.run # req.run

C1_Witness == \E req \in Pending("analyze") : req.key = "doc-002"

C2Allowed ==
    { <<"Idle", "Uploading">>, <<"Uploading", "Analyzing">>, <<"Analyzing", "Complete">>,
      <<"Uploading", "Failed">>, <<"Analyzing", "Failed">>,
      <<"Complete", "Idle">>, <<"Failed", "Idle">> }

\* C2: the workflow state changes only along Idle->Uploading,
\* Uploading->Analyzing, Analyzing->Complete, Uploading->Failed and
\* Analyzing->Failed, plus a restart from Complete or Failed back to Idle.
C2_OnlyListedTransitions ==
    [][WorkflowState' # WorkflowState => <<WorkflowState, WorkflowState'>> \in C2Allowed]_vars

\* C3: startAnalysis with no file selected sets the validation error, issues
\* no request, enters neither Uploading nor Analyzing and leaves result as it
\* is; with a file selected it enters Uploading and the upload is issued.
C3_StartAnalysis ==
    [][handleUploadAndAnalyze =>
         IF file = Null
           THEN /\ error' = "Please select a file"
                /\ inflight' = inflight
                /\ WorkflowState' \notin {"Uploading", "Analyzing"}
                /\ ~uploading' /\ ~analyzing'
                /\ result' = result
           ELSE /\ WorkflowState' = "Uploading"
                /\ Pending("upload")' = {UploadReq(file, obs.runs + 1)}]_vars

C3_Witness == file = Null /\ error = "Please select a file" /\ obs.runs = 1

\* C4: once the upload request has failed (rejected fetch or non-2xx response,
\* whatever its body) the workflow is Failed with a non-empty error, no analyze
\* request was or is issued for it, and no result or document id is visible.
C4_UploadFailure ==
    obs.failedAt = "upload" =>
        /\ WorkflowState = "Failed"
        /\ error # ""
        /\ obs.analyzeReqs = 0
        /\ Pending("analyze") = {}
        /\ result = Null
        /\ documentId = Undefined

C4_Witness == obs.failedAt = "upload" /\ error = "Something went wrong"

\* C5: once the analyze request has returned a non-2xx response the workflow
\* is Failed with result null, and the error ends with the text of the
\* response body whenever that text was received.
C5_AnalyzeFailureDetail ==
    (obs.failedAt = "analyze" /\ obs.lastBody # Null) =>
        /\ WorkflowState = "Failed"
        /\ result = Null
        /\ obs.lastBody.readable =>
              /\ EndsWith(error, obs.lastBody.text)
              /\ error = "Analysis failed: " \o obs.lastBody.text

C5_Witness ==
    /\ obs.failedAt = "analyze"
    /\ obs.lastBody # Null
    /\ obs.lastBody.readable
    /\ obs.lastBody.text = "Internal Server Error"

\* C6: after an analyze failure that follows a successful upload, the document
\* id of that upload is still held in the page's state.
C6_IdKeptAfterAnalyzeFailure ==
    obs.failedAt = "analyze" => documentId = obs.obtainedId

\* C7: an upload request is issued after an upload failure only if a file was
\* selected in between.
C7_FreshSelectionBeforeRetry ==
    \A req \in Pending("upload") : obs.selectedSinceFail

\* C8: one start causes at most one upload and at most one analyze request;
\* after a failure nothing is in flight, and the next request is issued only
\* by a new start of the user.
C8_NoAutomaticRetry ==
    /\ [](/\ obs.uploadReqs <= 1
          /\ obs.analyzeReqs <= 1
          /\ obs.failedAt # "none" => WorkflowRequests = {})
    /\ [][(obs.failedAt # "none" /\ WorkflowRequests' # WorkflowRequests) =>
            (~ControlsDisabled /\ file # Null /\ obs'.runs = obs.runs + 1)]_vars

C8_Witness == obs.failedAt = "analyze" /\ obs.runs = 2 /\ obs.analyzeReqs = 1

\* C9: at most one workflow is current: every request in flight belongs to
\* the most recently started workflow, the result shown is that of the most
\* recently started workflow, and while the workflow is Uploading or
\* Analyzing neither the selected file changes nor a workflow is started.
C9_SingleCurrentWorkflow ==
    /\ [](/\ Cardinality(WorkflowRequests) <= 1
          /\ \A req \in WorkflowRequests : req.run = obs.runs
          /\ result # Null => obs.resultRun = obs.runs)
    /\ [][(WorkflowState \in {"Uploading", "Analyzing"}) =>
            (file' = file /\ obs'.runs = obs.runs)]_vars

C9_Witness == WorkflowState = "Analyzing" /\ obs.runs = 2

\* C10: every request issued after the upload of a workflow has returned
\* document id d (analyze, classification, semantic search, chat) carries
\* exactly d.
C10_StableDocumentId ==
    \A req \in inflight :
        req.kind \in {"analyze", "classify", "search", "chat"} =>
            (obs.obtainedId \in DocIds /\ req.key = obs.obtainedId)

C10_Witness ==
    /\ \E req \in Pending("chat") : req.key = "doc-002"
    /\ \E req \in Pending("search") : req.key = "doc-002"
    /\ \E req \in Pending("classify") : req.key = "doc-002"

C12_EveryWorkflowEnds ==
    (WorkflowState \in {"Uploading", "Analyzing"}) ~> (WorkflowState \in {"Complete", "Failed"})

(***************************************************************************)
(* SemanticClauseSearch followed alone, as AnalyzePage renders it for a    *)
(* result with a document id.                                              *)
(***************************************************************************)
\* the page is Complete with the search component just mounted
InitSearch ==
    /\ file = [name |-> "contract.pdf"]
    /\ uploading = FALSE
    /\ analyzing = FALSE
    /\ result \in { ServerAnalyzeJson(d, [risk_analysis |-> [risk_level |-> "High"]]) :
                       d \in DocIds }
    /\ error = ""
    /\ classification = [classification |-> ServerClassifyJson(documentId), loading |-> FALSE]
    /\ search = SearchInit
    /\ chat = ChatInit
    /\ comparison = NotRendered
    /\ inflight = {}
    /\ obs = CompletedObs(result, MaxSearchSubmits, 0)

NextSearch ==
    \/ SearchQueryChanges
    \/ ExampleClicks
    \/ submitSearch
    \/ dispatchSubmit
    \/ SearchSettles

SpecSearch == InitSearch /\ [][NextSearch]_vars

(***************************************************************************)
(* Properties of the chat components.                                      *)
(***************************************************************************)
\* C13: every accepted ask adds exactly two messages to the history, the
\* user message and then one assistant message (answer or fallback): the
\* history holds the greeting, two messages for every ask that was answered
\* and one for the ask that is pending, with assistant and user messages
\* alternating; with no ask pending it is the greeting followed by pairs.
C13_TwoMessagesPerAsk ==
    /\ Len(chat.messages) = 1 + 2 * obs.asks - Cardinality(Pending("chat"))
    /\ \A i \in 1..Len(chat.messages) :
          chat.messages[i].role = IF i % 2 = 1 THEN "assistant" ELSE "user"
    /\ Pending("chat") = {} => Len(chat.messages) % 2 = 1

C13_Witness ==
    /\ Pending("chat") = {}
    /\ Len(chat.messages) = 5
    /\ chat.messages[3].content = "Thirty days."
    /\ chat.messages[5].content = "Sorry, there was an error processing your question. Please try again."

\* C14: an ask is rejected, with no message appended and no request issued,
\* when the question is blank after trimming or an ask of the instance is
\* pending: a user message is appended or a chat request issued only for a
\* non-blank question with no ask pending, and at most one chat request is
\* in flight.
C14_AskRejectedOrSerialized ==
    /\ [](Cardinality(Pending("chat")) <= 1)
    /\ [][(handleSend /\ (Trim(chat.input) = "" \/ Pending("chat") # {})) =>
            (chat.messages' = chat.messages /\ inflight' = inflight)]_vars
    /\ [][(Pending("chat")' \ Pending("chat") # {} \/ obs'.asks # obs.asks) =>
            /\ Trim(chat.input) # ""
            /\ Pending("chat") = {}
            /\ chat.messages' = Append(chat.messages, [role |-> "user", content |-> chat.input])
            /\ Cardinality(Pending("chat")') = 1]_vars

C14_Witness ==
    /\ chat.isOpen
    /\ chat.loading
    /\ Cardinality(Pending("chat")) = 1
    /\ obs.asks = 2
    /\ Len(chat.messages) = 4

\* s is a prefix of t
IsPrefix(s, t) == Len(s) <= Len(t) /\ SubSeq(t, 1, Len(s)) = s

\* the greeting of the chat component that is mounted
GreetingOf(component) == IF component = "FloatingChatbot" THEN Greeting ELSE DocumentGreeting

\* C15: the history of a chat instance starts as exactly one assistant
\* greeting and is append-only: before the first ask it is the greeting
\* alone, the greeting stays its first message, and every step leaves the
\* history it found as a prefix of the history it produces.
C15_AppendOnlyHistory ==
    /\ [](/\ obs.asks = 0 => chat.messages = <<GreetingOf(chat.component)>>
          /\ IsPrefix(<<GreetingOf(chat.component)>>, chat.messages)
          /\ GreetingOf(chat.component).role = "assistant")
    /\ [][IsPrefix(chat.messages, chat.messages')]_vars

C15_Witness ==
    /\ Len(chat.messages) = 5
    /\ chat.messages[1] = Greeting
    /\ chat.messages[2].content = "What are the main risks?"
    /\ chat.messages[4].content = "notice period"

\* C16: when a chat request fails (rejected fetch, or a non-2xx response
\* whatever its body) the message appended for it is the fixed fallback
\* apology of the component, never text of the failed response; when a 2xx
\* response carries an answer the message appended is that answer.
C16_FallbackOnFailure ==
    [][\A req \in Pending("chat") :
         \A resp \in ChatResponses(req) \cup ChatLookalikeResponses :
           chatSettled(req, resp) =>
             /\ chat.messages'[Len(chat.messages')].role = "assistant"
             /\ (resp.type = "reject" \/ ~resp.ok) =>
                   chat.messages'[Len(chat.messages')].content = ChatErrorContent(chat.component)
             /\ (resp.type = "http" /\ resp.ok /\ Truthy(JsonGet(resp.body.json, "answer"))) =>
                   chat.messages'[Len(chat.messages')].content = resp.body.json.answer]_vars

\* C17: the document_text of every chat request is the first
\* min(3000, length) characters of the documentText of the instance: a prefix
\* of it, of that length, never longer than 3000, whichever ask it belongs to.
C17_DocumentTextPrefix ==
    \A req \in Pending("chat") :
        /\ IsPrefix(req.document_text, ChatDocumentText)
        /\ Len(req.document_text) =
              IF Len(ChatDocumentText) <= ChatTextLimit THEN Len(ChatDocumentText)
              ELSE ChatTextLimit
        /\ Len(req.document_text) <= ChatTextLimit

C17_Witness ==
    \E req \in Pending("chat") :
        /\ req.n = 2
        /\ Len(ChatDocumentText) = ChatTextLimit + 1
        /\ Len(req.document_text) = ChatTextLimit

C19_BlankQueryRejected ==
    /\ [][((submitSearch \/ dispatchSubmit \/ ExampleClicks) /\ Trim(search.searchQuery) = "") =>
            /\ inflight' = inflight
            /\ search.loading' = search.loading
            /\ search.results' = search.results]_vars
    /\ [][(Pending("search")' \ Pending("search") # {}) =>
            /\ Trim(search.searchQuery) # ""
            /\ \A req \in Pending("search")' \ Pending("search") :
                  req.clause_text = search.searchQuery]_vars
    /\ [](Pending("search") = {} => ~search.loading)

C19_Witness ==
    /\ search.searchQuery \in ExampleQueries
    /\ obs.searches = 0
    /\ Pending("search") = {}
    /\ ~search.loading
    /\ search.results = Null

\* C20: the matches displayed are exactly the matches of a response of the
\* server, in its order and with its values: the results held are the parsed
\* body of a search response as a whole, and they are rendered element by
\* element in the order of that body.
C20_MatchesAsReturned ==
    /\ []((search.results # Null /\ ~search.loading /\ "matches" \in DOMAIN search.results) =>
             DisplayedMatches = search.results.matches)
    /\ [][(search.results' # search.results) =>
            \E req \in Pending("search") : \E resp \in SearchResponses(req) :
                /\ resp.type = "http"
                /\ search.results' = resp.body.json]_vars

C20_Witness ==
    /\ Len(DisplayedMatches) = 2
    /\ DisplayedMatches[1].clause = "c7"
    /\ DisplayedMatches[2].clause = "c2"

\* C21: a non-2xx response to a search request is a failure whatever its
\* body: the step that handles it leaves the results as they were, so that
\* the body of a failed response is never the SearchResult displayed.
C21_FailedSearchNotInstalled ==
    [][\A req \in Pending("search") :
         \A resp \in SearchResponses(req) :
           (searchSettled(req, resp) /\ resp.type = "http" /\ ~resp.ok) =>
               search.results' = search.results]_vars

\* C30: a click on an example query issues exactly one search request, and
\* its clause_text is the text of that example, whatever the search box held
\* before the click.
C30_ExampleQuerySearched ==
    [][\A example \in ExampleQueries :
         exampleClick(example) =>
             /\ Cardinality(Pending("search")' \ Pending("search")) = 1
             /\ \A req \in Pending("search")' \ Pending("search") :
                   req.clause_text = example]_vars

\* the steps of the search panel and of the chat
ChildSteps ==
    \/ SearchQueryChanges
    \/ submitSearch
    \/ ExampleClicks
    \/ SearchSettles
    \/ toggleChat
    \/ InputChanges
    \/ handleSend
    \/ ChatSettles

\* the page is Complete with the search panel and the chat just mounted
InitChildren ==
    /\ file = [name |-> "contract.pdf"]
    /\ uploading = FALSE
    /\ analyzing = FALSE
    /\ result \in { ServerAnalyzeJson(d, a) : d \in DocIds, a \in Analyses }
    /\ error = ""
    /\ classification = [classification |-> ServerClassifyJson(documentId), loading |-> FALSE]
    /\ search = SearchInit
    /\ chat = ChatInit
    /\ comparison = NotRendered
    /\ inflight = {}
    /\ obs = CompletedObs(result, MaxSearches, MaxAsks)

\* the search panel and the chat used side by side on a completed analysis
SpecChildren == InitChildren /\ [][ChildSteps]_vars

\* a search or chat request settles as a failure: the fetch is rejected or
\* the response is not a 2xx one
ChildFailures ==
    \/ \E req \in Pending("search") : \E resp \in SearchResponses(req) :
          /\ resp.type = "reject" \/ ~resp.ok
          /\ searchSettled(req, resp)
    \/ \E req \in Pending("chat") : \E resp \in ChatResponses(req) :
          /\ resp.type = "reject" \/ ~resp.ok
          /\ chatSettled(req, resp)

\* C22: a search or chat operation, whether it succeeds or fails, leaves the
\* selected file, the result, the document identifier, the error and the
\* uploading and analyzing flags as they were; after a search or chat failure
\* the workflow is still Complete with the same result.
C22_ChildrenLeaveWorkflow ==
    [][/\ ChildSteps => (pageVars' = pageVars /\ documentId' = documentId)
       /\ ChildFailures =>
             (WorkflowState' = "Complete" /\ result' = result /\ result # Null)]_vars

\* a search has failed and a chat question has failed, and the page is
\* Complete with its result and no error
C22_Witness ==
    /\ WorkflowState = "Complete"
    /\ error = ""
    /\ obs.searches > 0 /\ Pending("search") = {} /\ search.results = Null
    /\ Len(chat.messages) = 3
    /\ chat.messages[3].content = ChatErrorContent(chat.component)

(***************************************************************************)
(* DocumentComparison followed alone, mounted by a parent that passes two  *)
(* document ids.                                                           *)
(***************************************************************************)
\* the parent passes other documents
SetDocuments == \E id1 \in CompareIds : \E id2 \in CompareIds : setDocuments(id1, id2)

\* a comparison fetch settles
CompareSettles ==
    \E req \in Pending("compare") : \E resp \in CompareResponses(req) : compareSettled(req, resp)

\* the component just mounted, the page behind it untouched
InitComparison ==
    /\ file = Null
    /\ uploading = FALSE
    /\ analyzing = FALSE
    /\ result = Null
    /\ error = ""
    /\ classification = ClassificationInit
    /\ search = SearchInit
    /\ chat = ChatInit
    /\ comparison \in { ComparisonInit(id1, id2) : id1 \in CompareIds, id2 \in CompareIds }
    /\ inflight = {}
    /\ obs = CompletedObs(Null, 0, 0)

NextComparison ==
    \/ SetDocuments
    \/ useEffectCompare
    \/ CompareSettles

SpecComparison == InitComparison /\ [][NextComparison]_vars

(***************************************************************************)
(* Properties of the similarity bands.                                     *)
(***************************************************************************)
\* every score of the scale, whole hundredths
AllScores == 0..ScoreScale

\* the scores that get the gradient of score s
BandOf(s) == {t \in AllScores : getColorForScore(Num(t)) = getColorForScore(Num(s))}

\* C23: the band thresholds are applied from the highest down and are
\* inclusive: the gradient of the score shown is that of the band 90..100,
\* 75..89, 60..74, 40..59 or 0..39 that holds it, the five bands are disjoint
\* and cover the scale, and a score on a threshold is in the higher band.
C23_FiveInclusiveBands ==
    ComparisonShown /\ "num" \in DOMAIN ComparisonScore =>
        LET s == ComparisonScore.num
            bands == { ExcellentScore..ScoreScale, GoodScore..(ExcellentScore - 1),
                       FairScore..(GoodScore - 1), WeakScore..(FairScore - 1),
                       0..(WeakScore - 1) }
        IN  /\ BandOf(s) \in bands
            /\ \A b \in bands : s \in b => BandOf(s) = b
            /\ Cardinality({ getColorForScore(Num(t)) : t \in AllScores }) = 5
            /\ \A th \in {ExcellentScore, GoodScore, FairScore, WeakScore} :
                  /\ getColorForScore(Num(th)) # getColorForScore(Num(th - 1))
                  /\ s >= th => getColorForScore(Num(s)) # getColorForScore(Num(th - 1))

\* the score card shows a score that lies on a threshold
C23_Witness ==
    /\ ComparisonShown
    /\ ComparisonScore = Num(FairScore)
    /\ getColorForScore(ComparisonScore) = "from-yellow-500 to-orange-500"

\* C24: the comparison view and the search view put every score in the same
\* band: the score shown and any other score get the same gradient in the
\* comparison view exactly when they get the same colours in the search view.
C24_SameBandsInBothViews ==
    ComparisonShown /\ "num" \in DOMAIN ComparisonScore =>
        \A t \in AllScores :
            (getColorForScore(ComparisonScore) = getColorForScore(Num(t)))
                <=> (getSimilarityColor(ComparisonScore) = getSimilarityColor(Num(t)))

(***************************************************************************)
(* The workflow followed up to the results view, with analysis payloads    *)
(* that lack any of their sections and fields.                             *)
(***************************************************************************)
\* a 2xx answer to an analyze request with one of the payloads
AnalyzeViewResponses(req) ==
    { OkResponse(ServerAnalyzeJson(req.key, a)) : a \in ViewAnalyses }

\* the analyze fetch settles with such an answer
AnalyzeViewSettles ==
    \E req \in Pending("analyze") :
      \E resp \in AnalyzeViewResponses(req) : analyzeSettled(req, resp)

NextView ==
    \/ FileChanges
    \/ handleUploadAndAnalyze
    \/ analyzeAnother
    \/ UploadSettles
    \/ AnalyzeViewSettles

SpecView == Init /\ [][NextView]_vars

(***************************************************************************)
(* Properties of the results view.                                         *)
(***************************************************************************)
\* the fields of the risk_analysis held, where present, have values the
\* server documents: a payload that differs from a full one by absences only
OnlyAbsences ==
    RiskShown /\ "risk_level" \in DOMAIN riskAnalysis => riskAnalysis.risk_level \in RiskLevels

\* C25: for an analysis payload in which any of the optional sections
\* (risk_analysis, indian_context, document_intelligence, ai_summary) or of
\* their fields (risk_level, risk_matrix, overall_risk_score, document_type,
\* similar_clause_groups) is absent, building the view does not fail, and
\* every absent part shows its neutral default: an empty list, a zero score,
\* "General Contract".
C25_AbsentPartsGetDefaults ==
    result # Null /\ OnlyAbsences =>
        /\ ~RenderThrows
        /\ RiskShown /\ "overall_risk_score" \notin DOMAIN riskAnalysis =>
              HeroScoreLabel = "0.0/100"
        /\ RiskShown /\ "risk_matrix" \notin DOMAIN riskAnalysis =>
              total = Num(0) /\ BarLevels = {}
        /\ RiskShown /\ "recommendations" \notin DOMAIN riskAnalysis =>
              ShownRecommendations = <<>>
        /\ ContextShown /\ "document_type" \notin DOMAIN indianContext =>
              DocumentTypeLabel = "General Contract"
        /\ ContextShown /\ "applicable_acts" \notin DOMAIN indianContext => ShownActs = <<>>
        /\ ContextShown /\ "missing_important_clauses" \notin DOMAIN indianContext =>
              ShownMissingClauses = <<>>
        /\ ~HasSection(result, "document_intelligence") => SimilarGroups = <<>>
        /\ HasSection(result, "document_intelligence")
             /\ "similar_clause_groups" \notin DOMAIN documentIntelligence =>
              SimilarGroups = <<>>
        /\ ~HasSection(result, "ai_summary") => SummaryText = "No summary available"

\* C26: the percentage of every bar of the risk overview is count / total *
\* 100 when the total is positive and 0 when it is zero: always a number from
\* 0 to 100, never NaN, also when the matrix or some of its counts are absent.
C26_PercentagesDefined ==
    ResultsSectionShown /\ RiskShown =>
        /\ "num" \in DOMAIN total
        /\ \A level \in BarLevels :
              LET count == NumGet(matrix, level)
                  percentage == getPercentage(count)
              IN  /\ "num" \in DOMAIN percentage
                  /\ percentage.num \in 0..100
                  /\ total.num > 0 => percentage.num * total.num = count.num * 100
                  /\ total.num = 0 => percentage.num = 0
                  /\ BarWidth(level) # "NaN%"

\* C27: the gradient of the risk card is a function of risk_level alone:
\* Critical, High, Medium and Low have a gradient each, whatever the score,
\* and every other value has the neutral gradient.
C27_ColorByLevelAlone ==
    RiskShown =>
        LET level == StringGet(riskAnalysis, "risk_level")
        IN  /\ level = "Critical" => HeroColor = "from-red-500 to-red-600"
            /\ level = "High" => HeroColor = "from-orange-500 to-orange-600"
            /\ level = "Medium" => HeroColor = "from-yellow-500 to-yellow-600"
            /\ level = "Low" => HeroColor = "from-green-500 to-green-600"
            /\ level \notin RiskLevels => HeroColor = "from-gray-500 to-gray-600"
            /\ Cardinality({ getRiskColor(l) : l \in RiskLevels \cup {"Unknown", Undefined} }) = 5
            /\ \A other \in RiskAnalyses :
                  StringGet(other, "risk_level") = level =>
                      getRiskColor(StringGet(other, "risk_level")) = HeroColor

\* the card of a High risk of 72.4 points is orange
C27_Witness ==
    /\ ResultsSectionShown /\ RiskShown
    /\ StringGet(riskAnalysis, "risk_level") = "High"
    /\ NumGet(riskAnalysis, "overall_risk_score") = Num(724)
    /\ HeroColor = "from-orange-500 to-orange-600"

\* the first min(Len(full), cap) items of full, in their order
IsFirstOf(shown, full, cap) ==
    /\ Len(shown) = (IF Len(full) < cap THEN Len(full) ELSE cap)
    /\ \A i \in 1..Len(shown) : shown[i] = full[i]

\* C28: of the recommendations the page shows the first 6 at most, of the
\* applicable acts and of the missing clauses the first 4 at most: exactly the
\* first min(n, cap) items, in the order of the list, while the list held in
\* result stays the full list the server sent.
C28_CappedLists ==
    ResultsSectionShown =>
        /\ RiskShown /\ "recommendations" \in DOMAIN riskAnalysis =>
              /\ IsFirstOf(ShownRecommendations, riskAnalysis.recommendations,
                           MaxRecommendations)
              /\ riskAnalysis.recommendations
                    \in {SubSeq(Recommendations, 1, 2), Recommendations}
        /\ ContextShown /\ "applicable_acts" \in DOMAIN indianContext =>
              /\ IsFirstOf(ShownActs, indianContext.applicable_acts, MaxActs)
              /\ indianContext.applicable_acts \in {<<>>, ApplicableActs}
        /\ ContextShown /\ "missing_important_clauses" \in DOMAIN indianContext =>
              /\ IsFirstOf(ShownMissingClauses, indianContext.missing_important_clauses,
                           MaxMissingClauses)
              /\ indianContext.missing_important_clauses \in {<<>>, MissingClauses}

\* seven recommendations are held and the first six of them are shown
C28_Witness ==
    /\ ResultsSectionShown /\ RiskShown
    /\ "recommendations" \in DOMAIN riskAnalysis
    /\ Len(riskAnalysis.recommendations) = 7
    /\ Len(ShownRecommendations) = 6
    /\ ShownRecommendations[6] = Recommendations[6]

\* the colour of the gauge for a score
GaugeColorOf(score) ==
    IF Gte(score, GaugeRed * ScoreUnit) THEN "from-red-500 to-red-600"
    ELSE IF Gte(score, GaugeOrange * ScoreUnit) THEN "from-orange-500 to-orange-600"
    ELSE IF Gte(score, GaugeYellow * ScoreUnit) THEN "from-yellow-500 to-yellow-600"
    ELSE "from-green-500 to-green-600"

\* C29: in the risk overview the label of the score, the colour of the gauge
\* and the width of the gauge come from one value: overall_risk_score where
\* present, else the legacy overall_score, else 0.
C29_GaugeFromOneScore ==
    ResultsSectionShown /\ RiskShown =>
        LET score == IF "overall_risk_score" \in DOMAIN riskAnalysis
                       THEN Num(riskAnalysis.overall_risk_score)
                     ELSE IF "overall_score" \in DOMAIN riskAnalysis
                       THEN Num(riskAnalysis.overall_score)
                     ELSE Num(0)
        IN  /\ GaugeLabel = toFixed1(score, ScoreUnit) \o "/100"
            /\ GaugeColor = GaugeColorOf(score)
            /\ GaugeWidth = NumberToString(score, ScoreUnit) \o "%"
====
